---- MODULE Spec2Model ----
(***************************************************************************)
(* Model of main.py: the batch pipeline                                    *)
(*   prepare_all_texts -> get_articles_metadata -> sort_by_date ->         *)
(*   dict_to_list -> csv_dump                                              *)
(* Python strings that the program only compares for equality are TLA+     *)
(* strings.  Strings the program orders or writes character by character   *)
(* (date keys, CSV fields) are sequences of code points.                   *)
(***************************************************************************)
EXTENDS Integers, Sequences, FiniteSets, TLC

\* ------------------------------------------------------------- bounds
MaxArticles == 2
MaxRows == 2

\* ------------------------------------------------------------- inputs
\* File names after strip_off_file_path.
FileNames == {"a", "b"}

\* A raw text is represented by the words word_tokenize splits it into,
\* case kept.
Texts == { <<>>, <<"le">>, <<"Crime", ",", "crime">> }

\* Target tokens handed to sort_by_date (main passes 'crime').
Tokens == {"crime", ","}

Journals == {"Le Figaro"}

\* Date strings of the metadata source.  Two of them denote the same day.
DateStrings == {"2020-02-01", "1 Feb 2020", "2020-10-01", "n/a"}

RawArticles == [filename : FileNames, text : Texts]

MetadataRows == [filename : FileNames, newspaper_name : Journals, date : DateStrings]

SeqsUpTo(S, n) == UNION { [1..m -> S] : m \in 0..n }

\* ------------------------------------------------------------- strings
\* str.lower() on the vocabulary of Texts.
Lower(w) == IF w = "Crime" THEN "crime" ELSE w

\* The code points of the tokens that reach the CSV header.
Chars(s) ==
  CASE s = "crime" -> <<99, 114, 105, 109, 101>>
    [] s = "le"    -> <<108, 101>>
    [] s = ","     -> <<44>>
    [] OTHER       -> <<>>

\* '%s' % n for a natural number n: its decimal digits.
RECURSIVE Digits(_)
Digits(n) == IF n < 10 THEN <<48 + n>> ELSE Digits(n \div 10) \o <<48 + (n % 10)>>

\* 'year-month-day'
HeaderKey == <<121, 101, 97, 114, 45, 109, 111, 110, 116, 104, 45, 100, 97, 121>>

\* Python's str < str: lexicographic on code points, a proper prefix first.
RECURSIVE StrLess(_, _)
StrLess(a, b) ==
  IF b = <<>> THEN FALSE
  ELSE IF a = <<>> THEN TRUE
  ELSE IF Head(a) # Head(b) THEN Head(a) < Head(b)
  ELSE StrLess(Tail(a), Tail(b))

\* ------------------------------------------------------------- tokenizer
\* tokenize_text: [w.lower() for w in word_tokenize(file)]
tokenize_text(file) == [n \in 1..Len(file) |-> Lower(file[n])]

\* single_token_count: FreqDist(text)[token]
single_token_count(text, token) == Cardinality({n \in 1..Len(text) : text[n] = token})

\* ------------------------------------------------------------- dates
\* dateutil.parser.parse on DateStrings: the calendar day, or no parse.
Parseable(date) == date \in {"2020-02-01", "1 Feb 2020", "2020-10-01"}

DateutilParse(date) ==
  CASE date = "2020-02-01" -> [year |-> 2020, month |-> 2, day |-> 1]
    [] date = "1 Feb 2020" -> [year |-> 2020, month |-> 2, day |-> 1]
    [] date = "2020-10-01" -> [year |-> 2020, month |-> 10, day |-> 1]

\* parse_dates: '%s-%s-%s' % (date.year, date.month, date.day)
parse_dates(date) ==
  LET d == DateutilParse(date)
  IN  Digits(d.year) \o <<45>> \o Digits(d.month) \o <<45>> \o Digits(d.day)

\* ------------------------------------------------------------- state
VARIABLES
  pc,                    \* where main is
  list_of_articles,      \* get_articles_metadata: its argument
  metadata,              \* get_articles_metadata: drive.get_article_metadata()
  debug,                 \* get_articles_metadata: its flag
  a,                     \* get_articles_metadata: articles already joined
  new_list_of_articles,  \* get_articles_metadata: the list being built
  printed,               \* number of mismatch messages written to stdout
  text_data,             \* main: the joined articles
  token,                 \* sort_by_date: the target token
  k,                     \* sort_by_date: articles already aggregated
  index,                 \* sort_by_date: the dict, in insertion order
  results_list,          \* csv_dump: dict_to_list(results_dict)
  w,                     \* csv_dump: rows already written
  csv_file,              \* results.csv: opened in this run, and its characters
  exc                    \* the exception that ended the run, "" if none

vars == <<pc, list_of_articles, metadata, debug, a, new_list_of_articles, printed,
          text_data, token, k, index, results_list, w, csv_file, exc>>

\* ------------------------------------------------------------- values
\* The values a dict entry or a row cell holds, tagged with their Python type.
TupleValue(x, y) == [kind |-> "tuple", x |-> x, y |-> y, s |-> ""]

StrValue(s) == [kind |-> "str", x |-> 0, y |-> 0, s |-> s]

RECURSIVE GCD(_, _)
GCD(m, n) == IF n = 0 THEN m ELSE GCD(n, m % n)

\* The float x / y, y # 0: equal quotients are equal floats, held in lowest terms.
FloatValue(x, y) == [kind |-> "float", x |-> x \div GCD(x, y), y |-> y \div GCD(x, y), s |-> ""]

\* ------------------------------------------------------------- dict
\* A dict is the sequence of its items in insertion order.
DictKeys(d) == {d[n].key : n \in 1..Len(d)}

DictPos(d, key) == CHOOSE n \in 1..Len(d) : d[n].key = key

DictGet(d, key) == d[DictPos(d, key)].values

\* d[key] = values
DictSet(d, key, values) ==
  IF key \in DictKeys(d)
  THEN [d EXCEPT ![DictPos(d, key)] = [key |-> key, values |-> values]]
  ELSE Append(d, [key |-> key, values |-> values])

\* Python's dict ==: the same items, whatever their order.
DictItems(d) == {d[n] : n \in 1..Len(d)}

\* ------------------------------------------------------------- get_articles_metadata
\* A faulty variant of JoinArticle: an unmatched article is kept, without metadata.
JoinArticleKeepUnmatched(article, md) ==
  LET Match(row) == row.filename = article.filename
      rows == SelectSeq(md, Match)
  IN  IF rows = <<>>
      THEN << [file_name |-> article.filename, journal |-> "", date |-> "n/a",
               tokens |-> tokenize_text(article.text)] >>
      ELSE [n \in 1..Len(rows) |->
              [file_name |-> article.filename,
               journal   |-> rows[n].newspaper_name,
               date      |-> rows[n].date,
               tokens    |-> tokenize_text(article.text)]]

\* The inner loop over the metadata rows: one record per row whose filename
\* equals the article's, in row order.
JoinArticle(article, md) ==
  LET Match(row) == row.filename = article.filename
      rows == SelectSeq(md, Match)
  IN  [n \in 1..Len(rows) |->
         [file_name |-> article.filename,
          journal   |-> rows[n].newspaper_name,
          date      |-> rows[n].date,
          tokens    |-> tokenize_text(article.text)]]

\* The mismatch messages the inner loop prints: one per row whose filename
\* differs, and only under debug.
Mismatches(article, md, dbg) ==
  IF dbg THEN Cardinality({n \in 1..Len(md) : md[n].filename # article.filename})
  ELSE 0

\* ------------------------------------------------------------- sort_by_date
\* A faulty variant of SortStep: an existing bucket is overwritten, not added to.
SortStepOverwrite(idx, article, tok) ==
  LET key == parse_dates(article.date)
  IN  DictSet(DictSet(idx, key,
                      TupleValue(single_token_count(article.tokens, tok), Len(article.tokens))),
              HeaderKey, StrValue(tok))

\* One iteration of the loop of sort_by_date for an article whose date parses.
SortStep(idx, article, tok) ==
  LET key == parse_dates(article.date)
      n == single_token_count(article.tokens, tok)
      total == Len(article.tokens)
      bucketed ==
        IF key \notin DictKeys(idx)
        THEN DictSet(idx, key, TupleValue(n, total))
        ELSE DictSet(idx, key, TupleValue(DictGet(idx, key).x + n, DictGet(idx, key).y + total))
  IN  DictSet(bucketed, HeaderKey, StrValue(tok))

\* The whole loop of sort_by_date over articles whose dates all parse.
RECURSIVE SortByDateFrom(_, _, _)
SortByDateFrom(idx, articles, tok) ==
  IF articles = <<>> THEN idx
  ELSE SortByDateFrom(SortStep(idx, Head(articles), tok), Tail(articles), tok)

\* ------------------------------------------------------------- dict_to_list
\* values[0] / values[1] in the try block: the quotient, or the exception.
\* A str of two or more characters divides two str (TypeError), a shorter
\* one has no values[1] (IndexError), a zero total divides by zero.
TryDivide(values) ==
  IF values.kind = "str"
  THEN [raised |-> IF Len(Chars(values.s)) < 2 THEN "IndexError" ELSE "TypeError",
        value |-> values]
  ELSE IF values.y = 0
  THEN [raised |-> "ZeroDivisionError", value |-> values]
  ELSE [raised |-> "", value |-> FloatValue(values.x, values.y)]

\* A faulty variant of RowsOf: a zero total is written as the ratio 0.
RECURSIVE RowsOfZeroRatio(_, _)
RowsOfZeroRatio(items, rows) ==
  IF items = <<>> THEN rows
  ELSE LET it == Head(items)
           q == TryDivide(it.values)
       IN  IF q.raised = ""
           THEN RowsOfZeroRatio(Tail(items), Append(rows, <<it.key, q.value>>))
           ELSE IF q.raised = "ZeroDivisionError"
           THEN RowsOfZeroRatio(Tail(items), Append(rows, <<it.key, FloatValue(0, 1)>>))
           ELSE RowsOfZeroRatio(Tail(items), <<(<<it.key, it.values>>)>> \o rows)

\* The loop of dict_to_list over a_dict.items(): a row [date_key, ratio] is
\* appended, and on any exception the row [date_key, values] is put first.
RECURSIVE RowsOf(_, _)
RowsOf(items, rows) ==
  IF items = <<>> THEN rows
  ELSE LET it == Head(items)
           q == TryDivide(it.values)
       IN  IF q.raised = ""
           THEN RowsOf(Tail(items), Append(rows, <<it.key, q.value>>))
           ELSE RowsOf(Tail(items), <<(<<it.key, it.values>>)>> \o rows)

\* Whether row r sorts strictly before row q: operator.itemgetter(0) compared
\* as Python compares str.
KeyLess(r, q) == StrLess(r[1], q[1])

\* rows.sort(key=operator.itemgetter(0)): a stable sort, here by insertion.
RECURSIVE InsertRow(_, _)
InsertRow(sorted, r) ==
  IF sorted = <<>> THEN <<r>>
  ELSE IF KeyLess(r, Head(sorted)) THEN <<r>> \o sorted
  ELSE <<Head(sorted)>> \o InsertRow(Tail(sorted), r)

RECURSIVE SortRows(_, _)
SortRows(rows, sorted) ==
  IF rows = <<>> THEN sorted ELSE SortRows(Tail(rows), InsertRow(sorted, Head(rows)))

\* dict_to_list: the rows, sorted, the last one moved to the front;
\* rows.pop() of an empty list raises IndexError.
dict_to_list(a_dict) ==
  LET rows == SortRows(RowsOf(a_dict, <<>>), <<>>)
  IN  IF rows = <<>> THEN [raised |-> "IndexError", rows |-> <<>>]
      ELSE [raised |-> "", rows |-> <<rows[Len(rows)]>> \o SubSeq(rows, 1, Len(rows) - 1)]

\* ------------------------------------------------------------- csv
\* str(value) as csv.writer applies it to a cell that is not a str.  The repr
\* of a float is represented by its numerator and denominator in lowest
\* terms around '/': like the repr it determines the float and holds no
\* comma, quote, or line break.
CellText(v) ==
  IF v.kind = "str" THEN Chars(v.s)
  ELSE IF v.kind = "float" THEN Digits(v.x) \o <<47>> \o Digits(v.y)
  ELSE <<40>> \o Digits(v.x) \o <<44, 32>> \o Digits(v.y) \o <<41>>

\* Whether the writer must quote a field: it holds the delimiter, the quote
\* character or a character of the line terminator.
NeedsQuote(field) == \E n \in 1..Len(field) : field[n] \in {44, 34, 13, 10}

RECURSIVE DoubleQuotes(_)
DoubleQuotes(field) ==
  IF field = <<>> THEN <<>>
  ELSE IF Head(field) = 34 THEN <<34, 34>> \o DoubleQuotes(Tail(field))
  ELSE <<Head(field)>> \o DoubleQuotes(Tail(field))

\* One field as csv.writer writes it under QUOTE_MINIMAL.
CsvField(field) ==
  IF NeedsQuote(field) THEN <<34>> \o DoubleQuotes(field) \o <<34>> ELSE field

\* csvwriter.writerow(row) on a file opened in text mode: the two fields, the
\* delimiter between them, the line terminator '\r\n'.
writerow(row) == CsvField(row[1]) \o <<44>> \o CsvField(CellText(row[2])) \o <<13, 10>>

\* csv.reader over the characters of a file.  A character is outside the
\* quoted fields when an even number of quote characters comes before it.
Unquoted(data, n) == Cardinality({j \in 1..(n - 1) : data[j] = 34}) % 2 = 0

Positions(data, Keep(_)) ==
  LET all == [n \in 1..Len(data) |-> n] IN SelectSeq(all, Keep)

\* A field as read: the outer quotes off, each doubled quote a single one.
ReadField(field) ==
  IF field # <<>> /\ field[1] = 34
  THEN LET inner == SubSeq(field, 2, Len(field) - 1)
           Kept(n) == inner[n] # 34 \/ ~Unquoted(inner, n)
           at == Positions(inner, Kept)
       IN  [n \in 1..Len(at) |-> inner[at[n]]]
  ELSE field

\* The fields of one record: cut at the delimiters outside quotes.
ReadRecord(line) ==
  LET Delim(n) == line[n] = 44 /\ Unquoted(line, n)
      cuts == Positions(line, Delim)
  IN  [f \in 1..(Len(cuts) + 1) |->
         ReadField(SubSeq(line,
                          IF f = 1 THEN 1 ELSE cuts[f - 1] + 1,
                          IF f = Len(cuts) + 1 THEN Len(line) ELSE cuts[f] - 1))]

\* The rows read back: a record ends at a line break outside quotes.
RECURSIVE CsvRead(_)
CsvRead(data) ==
  IF data = <<>> THEN <<>>
  ELSE LET Break(n) == data[n] \in {13, 10} /\ Unquoted(data, n)
           ends == Positions(data, Break)
           e == IF ends = <<>> THEN Len(data) + 1 ELSE ends[1]
           next == IF e < Len(data) /\ data[e] = 13 /\ data[e + 1] = 10 THEN e + 2 ELSE e + 1
       IN  <<ReadRecord(SubSeq(data, 1, e - 1))>> \o CsvRead(SubSeq(data, next, Len(data)))

\* ------------------------------------------------------------- the run
NoFile == [opened |-> FALSE, data |-> <<>>]

Init ==
  /\ pc = "get_articles_metadata"
  /\ list_of_articles \in SeqsUpTo(RawArticles, MaxArticles)
  /\ metadata \in SeqsUpTo(MetadataRows, MaxRows)
  /\ debug \in BOOLEAN
  /\ a = 0
  /\ new_list_of_articles = <<>>
  /\ printed = 0
  /\ text_data = <<>>
  /\ token = ""
  /\ k = 0
  /\ index = <<>>
  /\ results_list = <<>>
  /\ w = 0
  /\ csv_file = NoFile
  /\ exc = ""

\* get_articles_metadata, one turn of `for article in list_of_articles`.
JoinNext ==
  /\ pc = "get_articles_metadata"
  /\ a < Len(list_of_articles)
  /\ new_list_of_articles' =
       new_list_of_articles \o JoinArticle(list_of_articles[a + 1], metadata)
  /\ printed' = printed + Mismatches(list_of_articles[a + 1], metadata, debug)
  /\ a' = a + 1
  /\ UNCHANGED <<pc, list_of_articles, metadata, debug, text_data, token, k, index,
                 results_list, w, csv_file, exc>>

\* get_articles_metadata returns, and prepare_all_texts with it: main holds
\* text_data, the locals are gone.
JoinReturn ==
  /\ pc = "get_articles_metadata"
  /\ a = Len(list_of_articles)
  /\ text_data' = new_list_of_articles
  /\ list_of_articles' = <<>>
  /\ metadata' = <<>>
  /\ debug' = FALSE
  /\ a' = 0
  /\ new_list_of_articles' = <<>>
  /\ pc' = "main"
  /\ UNCHANGED <<printed, token, k, index, results_list, w, csv_file, exc>>

\* main calls sort_by_date(text_data, token): index = {}.
SortCall ==
  /\ pc = "main"
  /\ token' \in Tokens
  /\ k' = 0
  /\ index' = <<>>
  /\ pc' = "sort_by_date"
  /\ UNCHANGED <<list_of_articles, metadata, debug, a, new_list_of_articles, printed,
                 text_data, results_list, w, csv_file, exc>>

\* sort_by_date, one turn of `for article in articles` with a date that parses.
SortNext ==
  /\ pc = "sort_by_date"
  /\ k < Len(text_data)
  /\ Parseable(text_data[k + 1].date)
  /\ index' = SortStep(index, text_data[k + 1], token)
  /\ k' = k + 1
  /\ UNCHANGED <<pc, list_of_articles, metadata, debug, a, new_list_of_articles, printed,
                 text_data, token, results_list, w, csv_file, exc>>

\* A faulty variant of SortRaise: the article whose date does not parse is skipped.
SortSkip ==
  /\ pc = "sort_by_date"
  /\ k < Len(text_data)
  /\ ~Parseable(text_data[k + 1].date)
  /\ k' = k + 1
  /\ UNCHANGED <<pc, list_of_articles, metadata, debug, a, new_list_of_articles, printed,
                 text_data, token, index, results_list, w, csv_file, exc>>

\* sort_by_date, a turn whose date does not parse: dateutil raises, nothing
\* in sort_by_date or main catches it.
SortRaise ==
  /\ pc = "sort_by_date"
  /\ k < Len(text_data)
  /\ ~Parseable(text_data[k + 1].date)
  /\ exc' = "ParserError"
  /\ pc' = "raised"
  /\ UNCHANGED <<list_of_articles, metadata, debug, a, new_list_of_articles, printed,
                 text_data, token, k, index, results_list, w, csv_file>>

\* sort_by_date returns index; main calls csv_dump(index).
SortReturn ==
  /\ pc = "sort_by_date"
  /\ k = Len(text_data)
  /\ pc' = "csv_dump"
  /\ UNCHANGED <<list_of_articles, metadata, debug, a, new_list_of_articles, printed,
                 text_data, token, k, index, results_list, w, csv_file, exc>>

\* csv_dump: results_list = dict_to_list(results_dict).
DumpList ==
  /\ pc = "csv_dump"
  /\ dict_to_list(index).raised = ""
  /\ results_list' = dict_to_list(index).rows
  /\ pc' = "open"
  /\ UNCHANGED <<list_of_articles, metadata, debug, a, new_list_of_articles, printed,
                 text_data, token, k, index, w, csv_file, exc>>

\* csv_dump: dict_to_list raises, nothing in csv_dump or main catches it.
DumpRaise ==
  /\ pc = "csv_dump"
  /\ dict_to_list(index).raised # ""
  /\ exc' = dict_to_list(index).raised
  /\ pc' = "raised"
  /\ UNCHANGED <<list_of_articles, metadata, debug, a, new_list_of_articles, printed,
                 text_data, token, k, index, results_list, w, csv_file>>

\* csv_dump: open('results.csv', 'w') creates or truncates the file.
DumpOpen ==
  /\ pc = "open"
  /\ csv_file' = [opened |-> TRUE, data |-> <<>>]
  /\ w' = 0
  /\ pc' = "write"
  /\ UNCHANGED <<list_of_articles, metadata, debug, a, new_list_of_articles, printed,
                 text_data, token, k, index, results_list, exc>>

\* csv_dump, one turn of `for row in results_list`.
DumpWrite ==
  /\ pc = "write"
  /\ w < Len(results_list)
  /\ csv_file' = [csv_file EXCEPT !.data = @ \o writerow(results_list[w + 1])]
  /\ w' = w + 1
  /\ UNCHANGED <<pc, list_of_articles, metadata, debug, a, new_list_of_articles, printed,
                 text_data, token, k, index, results_list, exc>>

\* csv_dump leaves the with block and returns; main returns.
DumpClose ==
  /\ pc = "write"
  /\ w = Len(results_list)
  /\ pc' = "done"
  /\ UNCHANGED <<list_of_articles, metadata, debug, a, new_list_of_articles, printed,
                 text_data, token, k, index, results_list, w, csv_file, exc>>

Next ==
  \/ JoinNext
  \/ JoinReturn
  \/ SortCall
  \/ SortNext
  \/ SortRaise
  \/ SortReturn
  \/ DumpList
  \/ DumpRaise
  \/ DumpOpen
  \/ DumpWrite
  \/ DumpClose

Spec == Init /\ [][Next]_vars

\* ------------------------------------------------------------- the aggregator alone
\* sort_by_date and csv_dump as functions of their arguments: main at the
\* call of sort_by_date, text_data any list get_articles_metadata can return.
MaxJoined == 3

JoinedArticles ==
  { [file_name |-> "a", journal |-> j, date |-> d, tokens |-> tokenize_text(t)] :
      j \in Journals, d \in DateStrings, t \in Texts }

InitSort ==
  /\ pc = "main"
  /\ list_of_articles = <<>>
  /\ metadata = <<>>
  /\ debug = FALSE
  /\ a = 0
  /\ new_list_of_articles = <<>>
  /\ printed = 0
  /\ text_data \in SeqsUpTo(JoinedArticles, MaxJoined)
  /\ token = ""
  /\ k = 0
  /\ index = <<>>
  /\ results_list = <<>>
  /\ w = 0
  /\ csv_file = NoFile
  /\ exc = ""

NextSort ==
  \/ SortCall
  \/ SortNext
  \/ SortRaise
  \/ SortReturn
  \/ DumpList
  \/ DumpRaise
  \/ DumpOpen
  \/ DumpWrite
  \/ DumpClose

SpecSort == InitSort /\ [][NextSort]_vars

\* ------------------------------------------------------------- properties
Aggregating == pc \in {"sort_by_date", "csv_dump", "open", "write", "done", "raised"}

Listed == pc \in {"open", "write", "done"}

\* The articles of text_data[1..n] whose date denotes the calendar day of `date`.
SameDay(n, date) ==
  {m \in 1..n : DateutilParse(text_data[m].date) = DateutilParse(date)}

RECURSIVE SumOf(_, _)
SumOf(S, f) ==
  IF S = {} THEN 0 ELSE LET m == CHOOSE m \in S : TRUE IN f[m] + SumOf(S \ {m}, f)

TargetCounts == [m \in 1..Len(text_data) |->
                   Cardinality({n \in 1..Len(text_data[m].tokens) : text_data[m].tokens[n] = token})]

TokenCounts == [m \in 1..Len(text_data) |-> Len(text_data[m].tokens)]

\* C1: once sort_by_date has aggregated the first k articles, the bucket of
\* every date key holds (the occurrences of the target token, the number of
\* tokens) summed over exactly the articles of that calendar day, and two
\* articles have the same key exactly when their dates denote the same day.
C1_BucketSums ==
  Aggregating =>
    /\ \A m \in 1..k :
         LET key == parse_dates(text_data[m].date)
         IN  /\ key \in DictKeys(index)
             /\ DictGet(index, key) =
                  TupleValue(SumOf(SameDay(k, text_data[m].date), TargetCounts),
                             SumOf(SameDay(k, text_data[m].date), TokenCounts))
    /\ \A m, n \in 1..k :
         (parse_dates(text_data[m].date) = parse_dates(text_data[n].date))
           <=> (DateutilParse(text_data[m].date) = DateutilParse(text_data[n].date))
    /\ \A n \in 1..Len(index) :
         \/ index[n].key = HeaderKey
         \/ \E m \in 1..k : index[n].key = parse_dates(text_data[m].date)
    /\ \A m, n \in 1..Len(index) : index[m].key = index[n].key => m = n

C1_Witness ==
  /\ pc = "csv_dump"
  /\ \E m, n \in 1..Len(text_data) :
       /\ m < n
       /\ text_data[m].date # text_data[n].date
       /\ DateutilParse(text_data[m].date) = DateutilParse(text_data[n].date)
       /\ TargetCounts[m] > 0
       /\ TokenCounts[n] > 0
       /\ DictGet(index, parse_dates(text_data[m].date)).y = TokenCounts[m] + TokenCounts[n]
  /\ Len(index) = 2

\* C2: for every list of articles, the empty one included, dict_to_list
\* returns, its first row is the header row ['year-month-day', token], the
\* header occurs once, and every other row is keyed by a date key.
C2_HeaderFirst ==
  /\ exc # "IndexError"
  /\ Listed =>
       /\ results_list[1] = <<HeaderKey, StrValue(token)>>
       /\ \A n \in 2..Len(results_list) :
            /\ results_list[n][1] # HeaderKey
            /\ \E m \in 1..Len(text_data) :
                 results_list[n][1] = parse_dates(text_data[m].date)

\* The calendar day a date key of the rows stands for.
DayOfKey(key) ==
  DateutilParse(text_data[CHOOSE m \in 1..Len(text_data) :
                            parse_dates(text_data[m].date) = key].date)

Earlier(d, e) ==
  \/ d.year < e.year
  \/ d.year = e.year /\ d.month < e.month
  \/ d.year = e.year /\ d.month = e.month /\ d.day < e.day

\* C3: the rows after the header are in ascending order of calendar day.
C3_RowsSortedByDate ==
  Listed =>
    \A m, n \in 2..Len(results_list) :
      m < n => Earlier(DayOfKey(results_list[m][1]), DayOfKey(results_list[n][1]))

\* C4: a date that cannot be parsed does not end the run: no ParserError
\* leaves sort_by_date, and a run with such an article still ends with its
\* result written.
C4_UnparseableNotFatal ==
  /\ exc # "ParserError"
  /\ (pc \in {"done", "raised"} /\ \E m \in 1..Len(text_data) : ~Parseable(text_data[m].date))
       => pc = "done"

HasBadDate == \E m \in 1..Len(text_data) : ~Parseable(text_data[m].date)

\* C5: when an article with an unparseable date reaches sort_by_date, the run
\* gets past sort_by_date only by the uncaught ParserError, and results.csv is
\* neither opened nor written, wherever the article is in the list.
C5_MalformedDatePropagates ==
  /\ (HasBadDate /\ pc \notin {"main", "sort_by_date"}) =>
       /\ pc = "raised"
       /\ exc = "ParserError"
  /\ (HasBadDate \/ exc = "ParserError") =>
       /\ csv_file = NoFile
       /\ results_list = <<>>
  /\ exc = "ParserError" => pc = "raised" /\ ~Parseable(text_data[k + 1].date)

C5_Witness ==
  /\ pc = "raised"
  /\ exc = "ParserError"
  /\ k >= 1
  /\ k + 1 < Len(text_data)
  /\ Len(index) >= 2

Joining == pc = "get_articles_metadata"

Unmatched(article) == \A m \in 1..Len(metadata) : metadata[m].filename # article.filename

\* The (article, row) pairs among the first n articles, article by article
\* and row by row, that carry the same filename.
MatchingPairs(n) ==
  LET L == Len(metadata)
      pairs == [q \in 1..(n * L) |-> <<((q - 1) \div L) + 1, ((q - 1) % L) + 1>>]
      Same(pr) == list_of_articles[pr[1]].filename = metadata[pr[2]].filename
  IN  SelectSeq(pairs, Same)

\* C6: while get_articles_metadata joins, an article whose filename is in no
\* metadata row has no record in the list, nothing is raised, the list is
\* exactly the records of the other articles (file_name, journal and date of
\* the matching row, tokens of the text), and a mismatch message is printed
\* only under debug.
C6_UnmatchedDropped ==
  Joining =>
    /\ \A n \in 1..a :
         Unmatched(list_of_articles[n]) =>
           \A r \in 1..Len(new_list_of_articles) :
             new_list_of_articles[r].file_name # list_of_articles[n].filename
    /\ exc = ""
    /\ LET pairs == MatchingPairs(a)
       IN  new_list_of_articles =
             [r \in 1..Len(pairs) |->
                [file_name |-> list_of_articles[pairs[r][1]].filename,
                 journal   |-> metadata[pairs[r][2]].newspaper_name,
                 date      |-> metadata[pairs[r][2]].date,
                 tokens    |-> [t \in 1..Len(list_of_articles[pairs[r][1]].text) |->
                                  Lower(list_of_articles[pairs[r][1]].text[t])]]]
    /\ printed > 0 => debug

C6_Witness ==
  /\ Joining
  /\ a = 2
  /\ Unmatched(list_of_articles[1])
  /\ ~Unmatched(list_of_articles[2])
  /\ Len(new_list_of_articles) = 1
  /\ new_list_of_articles[1].tokens = <<"crime", ",", "crime">>
  /\ debug
  /\ printed > 0

\* C7: dict_to_list raises only on a dict without buckets; in its list a
\* bucket whose total is 0 has the row [date_key, (target_count, total_count)]
\* and any other bucket the row [date_key, target_count / total_count].
C7_ZeroTotalCaught ==
  /\ exc = "IndexError" => index = <<>>
  /\ Listed =>
       /\ Len(results_list) = Len(index)
       /\ \A n \in 1..Len(index) :
            index[n].values.kind = "tuple" =>
              \E r \in 1..Len(results_list) :
                /\ results_list[r][1] = index[n].key
                /\ IF index[n].values.y = 0
                   THEN results_list[r][2] = index[n].values
                   ELSE /\ results_list[r][2].kind = "float"
                        /\ results_list[r][2].x * index[n].values.y
                             = index[n].values.x * results_list[r][2].y
                        /\ results_list[r][2].y > 0
                        /\ GCD(results_list[r][2].x, results_list[r][2].y) = 1

C7_Witness ==
  /\ pc = "done"
  /\ \E m, n \in 1..Len(index) :
       /\ index[m].values.kind = "tuple"
       /\ index[m].values.y = 0
       /\ index[n].values.kind = "tuple"
       /\ index[n].values.x > 0
       /\ index[n].values.x < index[n].values.y

\* The text of the rows of a list, cell by cell.
RowTexts(rows) == [r \in 1..Len(rows) |-> <<rows[r][1], CellText(rows[r][2])>>]

\* C8: whatever index sort_by_date returned, the run ends with results.csv
\* written, and reading it back gives the rows of dict_to_list(index), in
\* their order, the header first.
C8_CsvRoundTrip ==
  (pc \in {"done", "raised"} /\ exc # "ParserError") =>
    /\ pc = "done"
    /\ CsvRead(csv_file.data) = RowTexts(dict_to_list(index).rows)
    /\ results_list[1][1] = HeaderKey

\* C9: get_articles_metadata holds at most one record for each article it
\* has joined.
C9_JoinedAtMostOnce ==
  Joining => Len(new_list_of_articles) <= a

Permuted(seq, p) == [n \in 1..Len(seq) |-> seq[p[n]]]

\* C10: when sort_by_date has returned for a non-empty list of articles, it
\* returns the same mapping, and dict_to_list the same rows, for every
\* permutation of the list.
C10_OrderIndependent ==
  (pc = "csv_dump" /\ text_data # <<>>) =>
    \A p \in Permutations(1..Len(text_data)) :
      LET other == SortByDateFrom(<<>>, Permuted(text_data, p), token)
      IN  /\ DictItems(other) = DictItems(index)
          /\ dict_to_list(other) = dict_to_list(index)

C10_Witness ==
  /\ pc = "csv_dump"
  /\ Len(text_data) = 3
  /\ Len(index) = 3
  /\ \E p \in Permutations(1..3) :
       SortByDateFrom(<<>>, Permuted(text_data, p), token) # index
  /\ \E n \in 1..Len(index) : index[n].values.kind = "tuple" /\ index[n].values.x > 2

====
